---- MODULE Spec2Model ----
(***************************************************************************)
(* Model of src/main.py: the IcePanel diagram reconstruction script.       *)
(*                                                                         *)
(* Identifiers (diagram ids, diagram-object ids, model-object ids) are     *)
(* natural numbers, None is 0.  Text (names, ids as they are printed) is a *)
(* sequence of chunks, each chunk a STRING.                                *)
(***************************************************************************)
EXTENDS Integers, Sequences, FiniteSets, TLC

VARIABLES
    model_objects,   \* main.py:139  the ObjectStore: model id -> model object
    mo,              \* the last get_model_object call and its bookkeeping
    diagram_cache,   \* main.py:141  diagram id -> resolver result
    rs,              \* the running get_diagram_data call (its locals)
    rlog,            \* what get_diagram_data calls have done so far
    mdia,            \* a MermaidDiagram: its nodes and links
    seq,             \* a MermaidSequence: its participants and sequence_steps
    rd,              \* what was rendered: the texts generate() returned
    dg,              \* main in diagram mode: its locals and position
    fl               \* main in flow mode: its locals and position

vars == <<model_objects, mo, diagram_cache, rs, rlog, mdia, seq, rd, dg, fl>>

None == 0

(***************************************************************************)
(* Bounds of the model.                                                    *)
(***************************************************************************)
MaxStoreCalls == 3

ModelIds == {1, 2}

(***************************************************************************)
(* Python dictionaries are functions; d[k] = v adds or replaces one key.   *)
(***************************************************************************)
EmptyDict == <<>>

DictPut(d, k, v) == [x \in (DOMAIN d) \cup {k} |-> IF x = k THEN v ELSE d[x]]

(***************************************************************************)
(* ObjectStore: get_model_object (main.py:144-165).                        *)
(***************************************************************************)
ModelObject(id, name, type, parentId) ==
    [id |-> id, name |-> name, type |-> type, parentId |-> parentId]

\* main.py:150: what a None id yields
UnknownModelObject == ModelObject(None, <<"Unknown">>, "unknown", None)

\* main.py:162: the dummy object of a fetch that brought no object body
DummyModelObject(model_object_id) ==
    ModelObject(model_object_id, <<"Unknown Model Object">>, "unknown", None)

\* The bodies the model-objects endpoint may answer with: an object under a
\* "modelObject" wrapper, an object at the root (it has an "id" key), a JSON
\* body with neither (a 404 body, an error message), or a body that is not
\* JSON (an HTML error page), for which rmodel.json() raises.
ModelBodies ==
    { ModelObject(i, n, "system", p) :
        i \in ModelIds, n \in {<<"Svc">>, <<"Db">>}, p \in ModelIds \cup {None} }

ModelResponses ==
    [shape : {"wrapped", "bare"}, obj : ModelBodies]
    \cup {[shape |-> "error", obj |-> UnknownModelObject],
          [shape |-> "notjson", obj |-> UnknownModelObject]}

\* main.py:155: rmodel.json() raises when the body is not JSON
JsonRaises(resp) == resp.shape = "notjson"

HasModelObjectKey(resp) == resp.shape = "wrapped"

HasIdKey(resp) == resp.shape = "bare"

\* A plausible slip: the store is written only when the fetch brought an object.
GetModelObject_NoStoreOnFailure(store, model_object_id, resp) ==
    IF model_object_id \in DOMAIN store
    THEN [ret |-> store[model_object_id], store |-> store, fetched |-> FALSE,
          raised |-> FALSE]
    ELSE IF model_object_id = None
    THEN [ret |-> UnknownModelObject, store |-> store, fetched |-> FALSE,
          raised |-> FALSE]
    ELSE IF JsonRaises(resp)
    THEN [ret |-> UnknownModelObject, store |-> store, fetched |-> TRUE,
          raised |-> TRUE]
    ELSE IF HasModelObjectKey(resp) \/ HasIdKey(resp)
    THEN [ret |-> resp.obj, store |-> DictPut(store, model_object_id, resp.obj),
          fetched |-> TRUE, raised |-> FALSE]
    ELSE [ret |-> DummyModelObject(model_object_id), store |-> store,
          fetched |-> TRUE, raised |-> FALSE]

\* get_model_object: the value returned, the store afterwards, whether an
\* HTTP request was issued, and whether the call raised instead of returning
\* (ret is then of no account).  resp is what the endpoint answers if asked.
GetModelObject(store, model_object_id, resp) ==
    IF model_object_id \in DOMAIN store
    THEN [ret |-> store[model_object_id], store |-> store, fetched |-> FALSE,
          raised |-> FALSE]
    ELSE IF model_object_id = None
    THEN [ret |-> UnknownModelObject, store |-> store, fetched |-> FALSE,
          raised |-> FALSE]
    ELSE IF JsonRaises(resp)
    THEN [ret |-> UnknownModelObject, store |-> store, fetched |-> TRUE,
          raised |-> TRUE]
    ELSE LET model_object ==
                 IF HasModelObjectKey(resp) THEN resp.obj
                 ELSE IF ~HasIdKey(resp) THEN DummyModelObject(model_object_id)
                 ELSE resp.obj
         IN  [ret |-> model_object,
              store |-> DictPut(store, model_object_id, model_object),
              fetched |-> TRUE, raised |-> FALSE]

\* Bookkeeping of the calls made so far: the last call (its id, its result,
\* whether it fetched and the shape of the response if it did), the number
\* of fetches per id, the first result per id.  aborted: the last call raised,
\* which ends the program.
MoInit ==
    [calls |-> 0, id |-> None, ret |-> UnknownModelObject, fetched |-> FALSE,
     shape |-> "none", aborted |-> FALSE,
     fetches |-> [i \in ModelIds |-> 0], first |-> EmptyDict]

StoreIdle == model_objects = EmptyDict /\ mo = MoInit

CallGetModelObject ==
    /\ mo.calls < MaxStoreCalls
    /\ ~mo.aborted
    /\ \E id \in ModelIds \cup {None}, resp \in ModelResponses :
         LET r == GetModelObject(model_objects, id, resp) IN
         /\ model_objects' = r.store
         /\ mo' = [calls |-> mo.calls + 1, id |-> id, ret |-> r.ret,
                   fetched |-> r.fetched,
                   shape |-> IF r.fetched THEN resp.shape ELSE "none",
                   aborted |-> r.raised,
                   fetches |-> IF r.fetched
                               THEN [mo.fetches EXCEPT ![id] = @ + 1]
                               ELSE mo.fetches,
                   first |-> IF id = None \/ id \in DOMAIN mo.first
                             THEN mo.first
                             ELSE IF r.raised THEN mo.first
                             ELSE DictPut(mo.first, id, r.ret)]
    /\ UNCHANGED <<diagram_cache, rs, rlog, mdia, seq, rd, dg, fl>>

(***************************************************************************)
(* Text.  A rendered line is kept as its parts: the kind of line, its      *)
(* indentation, the ids it prints (a, b), its name or label (text), and    *)
(* ref, which names the node or link the line was printed for.             *)
(***************************************************************************)
Line(kind, indent, a, b, text, ref) ==
    [kind |-> kind, indent |-> indent, a |-> a, b |-> b, text |-> text,
     ref |-> ref]

NoText == <<>>

\* The characters of an id as the API gives it (ids are strings there).
IdChunks(id) ==
    CASE id = None -> <<"None">>
      [] id = 1 -> <<"a">>
      [] id = 2 -> <<"b", "_", "2">>
      [] id = 3 -> <<"a", "-">>
      [] OTHER -> <<"n", ToString(id)>>

Punctuation == {"-", ".", " ", "\"", "_", "&quot;"}

\* str.isalnum, chunk by chunk
IsAlnum(c) == c \notin Punctuation

\* main.py:84: keep alphanumerics and the underscore
SafeId(id) ==
    SelectSeq(IdChunks(id), LAMBDA c : IsAlnum(c) \/ c = "_")

\* main.py:86: name.replace('"', '&quot;')
EscapeName(name) ==
    [i \in DOMAIN name |-> IF name[i] = "\"" THEN "&quot;" ELSE name[i]]

(***************************************************************************)
(* MermaidDiagram (main.py:76-136).  nodes is the dict in insertion order: *)
(* a sequence of [key, id, name, parent, children], children being the     *)
(* keys of the child nodes.                                                *)
(***************************************************************************)
NodeKeys(nodes) == {nodes[i].key : i \in DOMAIN nodes}

NodeIndex(nodes, key) == CHOOSE i \in DOMAIN nodes : nodes[i].key = key

NodeOf(nodes, key) == nodes[NodeIndex(nodes, key)]

\* main.py:82-92: self.nodes[id] = {...}; an existing key keeps its place
AddNode(nodes, id, name, parent_id) ==
    LET node == [key |-> id, id |-> SafeId(id), name |-> EscapeName(name),
                 parent |-> parent_id, children |-> <<>>]
    IN  IF id \in NodeKeys(nodes)
        THEN [nodes EXCEPT ![NodeIndex(nodes, id)] = node]
        ELSE Append(nodes, node)

\* main.py:94-95
AddLink(links, source_id, target_id, label) ==
    Append(links, [source |-> source_id, target |-> target_id, label |-> label])

\* A slip: the children lists are not emptied before they are filled.
ResetChildren_Missing(nodes) == nodes

\* main.py:100-101
ResetChildren(nodes) ==
    [i \in DOMAIN nodes |-> [nodes[i] EXCEPT !.children = <<>>]]

\* main.py:105: the node has a parent and the parent is a node
HasParentNode(nodes, node) ==
    node.parent # None /\ node.parent \in NodeKeys(nodes)

\* main.py:104-108: every node with a parent node is appended to that
\* parent's children, in the order of the nodes; the others are the roots.
AttachChildren(nodes) ==
    [i \in DOMAIN nodes |->
       [nodes[i] EXCEPT !.children =
          @ \o [j \in 1..Cardinality({k \in DOMAIN nodes :
                                        /\ HasParentNode(nodes, nodes[k])
                                        /\ nodes[k].parent = nodes[i].key}) |->
                  nodes[CHOOSE k \in DOMAIN nodes :
                          /\ HasParentNode(nodes, nodes[k])
                          /\ nodes[k].parent = nodes[i].key
                          /\ Cardinality({m \in 1..k :
                                            /\ HasParentNode(nodes, nodes[m])
                                            /\ nodes[m].parent = nodes[i].key})
                             = j].key]]]

Roots(nodes) == SelectSeq(nodes, LAMBDA node : ~HasParentNode(nodes, node))

\* main.py:112-122
RECURSIVE render_node(_, _, _)
RECURSIVE render_children(_, _, _)
render_node(nodes, node, indent) ==
    IF node.children # <<>>
    THEN <<Line("subgraph", indent, node.id, NoText, node.name, node.key)>>
         \o render_children(nodes, node.children, indent + 1)
         \o <<Line("end", indent, NoText, NoText, NoText, node.key)>>
    ELSE <<Line("node", indent, node.id, NoText, node.name, node.key)>>

render_children(nodes, children, indent) ==
    IF children = <<>> THEN <<>>
    ELSE render_node(nodes, NodeOf(nodes, Head(children)), indent)
         \o render_children(nodes, Tail(children), indent)

RECURSIVE render_roots(_, _)
render_roots(nodes, roots) ==
    IF roots = <<>> THEN <<>>
    ELSE render_node(nodes, Head(roots), 1) \o render_roots(nodes, Tail(roots))

\* main.py:127-135: a link is printed only if both its ends are nodes
RECURSIVE render_links(_, _, _)
render_links(nodes, links, n) ==
    IF n > Len(links) THEN <<>>
    ELSE LET link == links[n] IN
         (IF link.source \in NodeKeys(nodes) /\ link.target \in NodeKeys(nodes)
          THEN <<Line(IF link.label # NoText THEN "edge-label" ELSE "edge", 1,
                      NodeOf(nodes, link.source).id,
                      NodeOf(nodes, link.target).id, link.label, n)>>
          ELSE <<>>)
         \o render_links(nodes, links, n + 1)

\* MermaidDiagram.generate (main.py:97-136): the nodes afterwards (their
\* children lists are rewritten) and the text returned.
Generate(nodes, links) ==
    LET nested == AttachChildren(ResetChildren(nodes)) IN
    [nodes |-> nested,
     text |-> <<Line("flowchart TD", 0, NoText, NoText, NoText, 0)>>
              \o render_roots(nested, Roots(nested))
              \o render_links(nested, links, 1)]

(***************************************************************************)
(* MermaidSequence (main.py:43-73).                                        *)
(***************************************************************************)
\* main.py:50-52
AddParticipant(participants, participant) ==
    IF \E i \in DOMAIN participants : participants[i].id = participant.id
    THEN participants
    ELSE Append(participants, participant)

\* main.py:54-55
AddSequenceStep(sequence_steps, sequence_step) ==
    Append(sequence_steps, sequence_step)

\* main.py:68-72: one line per sequence step
SequenceStepLine(sequence_steps, n) ==
    LET sequence_step == sequence_steps[n] IN
    IF sequence_step.target_id = None
    THEN Line("-->>", 1, IdChunks(sequence_step.source_id),
              IdChunks(sequence_step.source_id), sequence_step.description, n)
    ELSE Line("->>", 1, IdChunks(sequence_step.source_id),
              IdChunks(sequence_step.target_id), sequence_step.description, n)

\* MermaidSequence.generate (main.py:63-73)
SeqGenerate(participants, sequence_steps) ==
    <<Line("sequenceDiagram", 0, NoText, NoText, NoText, 0),
      Line("autonumber", 1, NoText, NoText, NoText, 0)>>
    \o [i \in DOMAIN participants |->
          Line("participant", 1, IdChunks(participants[i].id), NoText,
               participants[i].name, i)]
    \o [n \in DOMAIN sequence_steps |-> SequenceStepLine(sequence_steps, n)]

(***************************************************************************)
(* The two graph objects used on their own: any add_node / add_link calls  *)
(* and generate() calls on a MermaidDiagram (mode "diagram"), any          *)
(* add_participant / add_sequence_step and generate() calls on a           *)
(* MermaidSequence (mode "flow").  main builds one or the other.           *)
(***************************************************************************)
MaxRenderOps == 3

RenderIds == {1, 2, 3}

RenderNames == {<<"say ", "\"", "hi", "\"">>}

RenderLabels == {NoText, <<"uses">>}

MdiaInit == [nodes |-> <<>>, links |-> <<>>]

SeqInit == [participants |-> <<>>, sequence_steps |-> <<>>]

\* ops: add calls so far; gens: generate() calls since the last add call (at
\* most 2 are counted); out and prev: the texts of the last two of them.
RdInit(mode) ==
    [mode |-> mode, ops |-> 0, gens |-> 0, out |-> <<>>, prev |-> <<>>]

RenderIdle == mdia = MdiaInit /\ seq = SeqInit /\ rd = RdInit("none")

Generated(text) ==
    [rd EXCEPT !.gens = IF @ < 2 THEN @ + 1 ELSE 2, !.prev = rd.out,
               !.out = text]

Added == [rd EXCEPT !.ops = @ + 1, !.gens = 0, !.out = <<>>, !.prev = <<>>]

Call_add_node ==
    /\ rd.mode = "diagram"
    /\ rd.ops < MaxRenderOps
    /\ \E id \in RenderIds, name \in RenderNames, parent_id \in RenderIds \cup {None} :
         mdia' = [mdia EXCEPT !.nodes = AddNode(@, id, name, parent_id)]
    /\ rd' = Added
    /\ UNCHANGED <<model_objects, mo, diagram_cache, rs, rlog, seq, dg, fl>>

Call_add_link ==
    /\ rd.mode = "diagram"
    /\ rd.ops < MaxRenderOps
    /\ \E source_id \in RenderIds, target_id \in RenderIds, label \in RenderLabels :
         mdia' = [mdia EXCEPT !.links = AddLink(@, source_id, target_id, label)]
    /\ rd' = Added
    /\ UNCHANGED <<model_objects, mo, diagram_cache, rs, rlog, seq, dg, fl>>

Call_generate ==
    /\ rd.mode = "diagram"
    /\ LET g == Generate(mdia.nodes, mdia.links) IN
       /\ mdia' = [mdia EXCEPT !.nodes = g.nodes]
       /\ rd' = Generated(g.text)
    /\ UNCHANGED <<model_objects, mo, diagram_cache, rs, rlog, seq, dg, fl>>

Call_add_participant ==
    /\ rd.mode = "flow"
    /\ rd.ops < MaxRenderOps
    /\ \E id \in ModelIds \cup {None}, name \in RenderNames :
         seq' = [seq EXCEPT !.participants =
                              AddParticipant(@, [id |-> id, name |-> name])]
    /\ rd' = Added
    /\ UNCHANGED <<model_objects, mo, diagram_cache, rs, rlog, mdia, dg, fl>>

Call_add_sequence_step ==
    /\ rd.mode = "flow"
    /\ rd.ops < MaxRenderOps
    /\ \E source_id \in ModelIds \cup {None}, target_id \in ModelIds \cup {None},
          description \in RenderLabels :
         seq' = [seq EXCEPT !.sequence_steps =
                   AddSequenceStep(@, [description |-> description,
                                       source_id |-> source_id,
                                       target_id |-> target_id])]
    /\ rd' = Added
    /\ UNCHANGED <<model_objects, mo, diagram_cache, rs, rlog, mdia, dg, fl>>

Call_seq_generate ==
    /\ rd.mode = "flow"
    /\ rd' = Generated(SeqGenerate(seq.participants, seq.sequence_steps))
    /\ UNCHANGED <<model_objects, mo, diagram_cache, rs, rlog, mdia, seq, dg, fl>>

(***************************************************************************)
(* DiagramDataResolver: get_diagram_data (main.py:169-275).                *)
(*                                                                         *)
(* A JSON value the resolver handles is abstracted to its kind, whether it *)
(* is empty, and where it was read: the response (0 the primary fetch, 1.. *)
(* 4 the sub-resources in probing order) and the place in that response.   *)
(***************************************************************************)
Val(k, n, resp, loc) == [k |-> k, n |-> n, resp |-> resp, loc |-> loc]

\* Python's None
NoneVal == Val("none", 0, 0, "none")

\* the [] default of dict.get(key, [])
EmptyListVal == Val("list", 0, 0, "default")

\* the {} the resolver stores when it found no objects (main.py:266)
EmptyObjectsVal == Val("dict", 0, 0, "default")

\* Python truthiness: None and empty collections are falsy
Truthy(v) == v.n > 0

IsDictVal(v) == v.k = "dict"

\* The value of a key of a response, from the key's shape in that response.
ShapeVal(shape, resp, loc) ==
    CASE shape \in {"absent", "null"} -> NoneVal
      [] shape = "emptyDict" -> Val("dict", 0, resp, loc)
      [] shape = "dict"      -> Val("dict", 1, resp, loc)
      [] shape = "emptyList" -> Val("list", 0, resp, loc)
      [] shape = "list"      -> Val("list", 1, resp, loc)
      [] OTHER               -> Val("other", 1, resp, loc)

\* dict.get(key, default)
GetOr(shape, resp, loc, default) ==
    IF shape = "absent" THEN default ELSE ShapeVal(shape, resp, loc)

DiagramIds == {1, 2}

MaxResolverCalls == 2

\* The sub-resources in the order of the dict literal (main.py:196-201).
Suffixes == <<"/content", "/objects", "/elements", "/relationships">>

SubResourceKeys(suffix) ==
    CASE suffix = "/content"       -> <<"diagramContent", "objects">>
      [] suffix = "/objects"       -> <<"objects">>
      [] suffix = "/elements"      -> <<"elements">>
      [] suffix = "/relationships" -> <<"relationships">>

\* What the primary diagram endpoint may answer: a status, and (for 200) the
\* shapes of diagram.objects, diagram.relationships and of the optional
\* diagramContent wrapper's objects and relationships.
PrimaryNotOk ==
    [status |-> 404, objects |-> "absent", relationships |-> "absent",
     hasContent |-> FALSE, cObjects |-> "absent", cRelationships |-> "absent"]

PrimaryResponses ==
    {PrimaryNotOk}
    \cup [status : {200},
          objects : {"absent", "null", "emptyDict", "dict"},
          relationships : {"absent", "null", "emptyList", "list", "dict"},
          hasContent : {FALSE}, cObjects : {"absent"}, cRelationships : {"absent"}]
    \cup [status : {200},
          objects : {"absent", "null", "emptyDict", "dict"},
          relationships : {"absent", "null", "emptyList", "list", "dict"},
          hasContent : {TRUE}, cObjects : {"absent", "emptyDict", "dict"},
          cRelationships : {"absent", "emptyList", "list", "dict"}]

\* What a sub-resource endpoint may answer: a status and (for 200) a JSON
\* array or a JSON object with the shapes of the keys the resolver looks at;
\* extra says that the object has other keys (an error message, say).
SubBody(kind, n, content, cObjects, cRelationships, objects, elements, relationships, extra) ==
    [status |-> 200, kind |-> kind, n |-> n, content |-> content,
     cObjects |-> cObjects, cRelationships |-> cRelationships,
     objects |-> objects, elements |-> elements,
     relationships |-> relationships, extra |-> extra]

SubNotOk ==
    [SubBody("dict", 0, "absent", "absent", "absent", "absent", "absent",
             "absent", FALSE) EXCEPT !.status = 404]

SubResponses ==
    {SubNotOk}
    \cup { SubBody("list", n, "absent", "absent", "absent", "absent", "absent",
                   "absent", FALSE) : n \in {0, 1} }
    \cup { SubBody("dict", 0, "absent", "absent", "absent", "absent", "absent",
                   "absent", TRUE) }
    \cup { SubBody("dict", 0, c, "absent", "absent", o, e, r, FALSE) :
             c \in {"absent", "other"}, o \in {"absent", "emptyDict", "dict"},
             e \in {"absent", "dict"},
             r \in {"absent", "emptyList", "list", "dict"} }
    \cup { SubBody("dict", 0, "dict", co, cr, o, e, r, FALSE) :
             co \in {"absent", "dict"}, cr \in {"absent", "emptyList", "list"},
             o \in {"absent", "emptyDict", "dict"}, e \in {"absent", "dict"},
             r \in {"absent", "emptyList", "list", "dict"} }

\* main.py:183-193: objects and relationships from the primary payload, then
\* from the diagramContent wrapper of the same response.
PrimaryParse(resp) ==
    LET objects0 == ShapeVal(resp.objects, 0, "diagram.objects")
        relationships0 ==
            GetOr(resp.relationships, 0, "diagram.relationships", EmptyListVal)
        objects1 ==
            IF ~Truthy(objects0) /\ resp.hasContent
            THEN ShapeVal(resp.cObjects, 0, "diagramContent.objects")
            ELSE objects0
        relationships1 ==
            IF ~Truthy(relationships0) /\ resp.hasContent
            THEN ShapeVal(resp.cRelationships, 0, "diagramContent.relationships")
            ELSE relationships0
    IN  [objects |-> objects1, relationships |-> relationships1]

\* The response body as a value (data itself).
BodyVal(data, i) ==
    IF data.kind = "list" THEN Val("list", data.n, i, "body")
    ELSE Val("dict",
             IF data.extra \/ data.content # "absent" \/ data.objects # "absent"
                \/ data.elements # "absent" \/ data.relationships # "absent"
             THEN 1 ELSE 0,
             i, "body")

\* data["diagramContent"] as a value
ContentVal(data, i) ==
    IF data.content = "dict"
    THEN Val("dict",
             IF data.cObjects # "absent" \/ data.cRelationships # "absent"
             THEN 1 ELSE 0,
             i, "diagramContent")
    ELSE Val("other", 1, i, "diagramContent")

\* The drill-down cursor temp_obj: the body, the wrapper, or a value under a key.
Temp(node, v) == [node |-> node, v |-> v]

\* key in temp_obj (for a temp_obj that is a dict)
KeyIn(data, temp, key) ==
    CASE temp.node = "body" ->
           /\ data.kind = "dict"
           /\ \/ key = "diagramContent" /\ data.content # "absent"
              \/ key = "objects" /\ data.objects # "absent"
              \/ key = "elements" /\ data.elements # "absent"
              \/ key = "relationships" /\ data.relationships # "absent"
      [] temp.node = "content" ->
           /\ data.content = "dict"
           /\ \/ key = "objects" /\ data.cObjects # "absent"
              \/ key = "relationships" /\ data.cRelationships # "absent"
      [] OTHER -> FALSE

\* temp_obj[key]
Child(data, i, temp, key) ==
    IF temp.node = "body"
    THEN CASE key = "diagramContent" ->
                Temp(IF data.content = "dict" THEN "content" ELSE "value",
                     ContentVal(data, i))
           [] key = "objects" -> Temp("value", ShapeVal(data.objects, i, "objects"))
           [] key = "elements" -> Temp("value", ShapeVal(data.elements, i, "elements"))
           [] OTHER -> Temp("value", ShapeVal(data.relationships, i, "relationships"))
    ELSE IF key = "objects"
    THEN Temp("value", ShapeVal(data.cObjects, i, "diagramContent.objects"))
    ELSE Temp("value",
              ShapeVal(data.cRelationships, i, "diagramContent.relationships"))

\* main.py:239-246: the loop over keys; the result is valid_path and temp_obj.
RECURSIVE Drill(_, _, _, _)
Drill(data, i, temp, keys) ==
    IF keys = <<>> THEN [valid |-> TRUE, temp |-> temp]
    ELSE LET key == Head(keys) IN
         IF IsDictVal(temp.v) /\ KeyIn(data, temp, key)
         THEN Drill(data, i, Child(data, i, temp, key), Tail(keys))
         ELSE IF IsDictVal(temp.v) /\ key = "objects" /\ ~KeyIn(data, temp, "objects")
         THEN Drill(data, i, temp, Tail(keys))
         ELSE [valid |-> FALSE, temp |-> temp]

\* main.py:210-222: relationships in the common locations, only while empty
CommonRelationships(data, i, relationships) ==
    IF Truthy(relationships) THEN relationships
    ELSE IF data.kind = "dict" /\ data.content = "dict"
    THEN GetOr(data.cRelationships, i, "diagramContent.relationships", EmptyListVal)
    ELSE IF data.kind = "dict" /\ data.relationships # "absent"
    THEN ShapeVal(data.relationships, i, "relationships")
    ELSE relationships

\* main.py:224-233: the /relationships endpoint's own handling
EndpointRelationships(suffix, data, i, relationships) ==
    IF suffix = "/relationships"
    THEN IF data.kind = "list" THEN BodyVal(data, i)
         ELSE IF data.relationships # "absent"
         THEN ShapeVal(data.relationships, i, "relationships")
         ELSE relationships
    ELSE relationships

\* main.py:205-258: one iteration of the loop over the sub-resources, for the
\* response data of sub-resource number i.
ProbeStep(i, data, objects, relationships) ==
    IF data.status # 200
    THEN [objects |-> objects, relationships |-> relationships, brk |-> FALSE]
    ELSE
    LET suffix == Suffixes[i]
        rel1 == CommonRelationships(data, i, relationships)
        rel2 == EndpointRelationships(suffix, data, i, rel1)
        drilled == Drill(data, i, Temp("body", BodyVal(data, i)),
                         SubResourceKeys(suffix))
        temp_obj == drilled.temp.v
        obj1 == IF drilled.valid /\ IsDictVal(temp_obj) /\ Truthy(temp_obj)
                   /\ ~Truthy(objects)
                THEN temp_obj ELSE objects
        whole == suffix = "/objects" /\ ~Truthy(obj1) /\ data.kind = "dict"
        obj2 == IF whole THEN BodyVal(data, i) ELSE obj1
        rel3 == IF whole /\ ~Truthy(rel2) /\ data.relationships # "absent"
                THEN ShapeVal(data.relationships, i, "relationships")
                ELSE rel2
    IN  [objects |-> obj2, relationships |-> rel3,
         brk |-> Truthy(obj2) /\ Truthy(rel3)]

\* The result of a call: None, or the diagram with its two collections; warned
\* tells that the "Could not locate diagram objects" warning was printed.
Ret(isNone, objects, relationships, warned) ==
    [isNone |-> isNone, objects |-> objects, relationships |-> relationships,
     warned |-> warned]

RetNone == Ret(TRUE, NoneVal, NoneVal, FALSE)

\* A slip in the final cleanup: objects stored as found, None included.
Cleanup_KeepNone(objects, relationships) ==
    Ret(FALSE, objects,
        IF ~Truthy(relationships) THEN EmptyListVal
        ELSE IF IsDictVal(relationships)
        THEN [relationships EXCEPT !.k = "list"]
        ELSE relationships,
        FALSE)

\* main.py:260-275: a keyed mapping of relationships is flattened to the list
\* of its values, missing objects become {} and empty relationships [].
Cleanup(objects, relationships) ==
    LET flat == IF Truthy(relationships) /\ IsDictVal(relationships)
                THEN [relationships EXCEPT !.k = "list"]
                ELSE relationships
    IN  Ret(FALSE,
            IF objects = NoneVal THEN EmptyObjectsVal ELSE objects,
            IF ~Truthy(flat) THEN EmptyListVal ELSE flat,
            objects = NoneVal)

\* The locals of get_diagram_data: pc is "idle" (no call yet), "loop" (before
\* the fetch of sub-resource i), "cleanup" (after the loop) or "done".
Frame(pc, d, status, objects, relationships, i, ret) ==
    [pc |-> pc, d |-> d, status |-> status, objects |-> objects,
     relationships |-> relationships, i |-> i, ret |-> ret]

RsInit == Frame("idle", None, 0, NoneVal, NoneVal, 0, RetNone)

\* An objects value in the primary response: under diagram.objects or under
\* the diagramContent wrapper.
PrimaryCarriesObjects(resp) ==
    \/ resp.objects \in {"emptyDict", "dict"}
    \/ resp.hasContent /\ resp.cObjects \in {"emptyDict", "dict"}

\* An objects value in a sub-resource response: under a root key the drill
\* looks at, or under the diagramContent wrapper.
SubCarriesObjects(data) ==
    /\ data.status = 200
    /\ data.kind = "dict"
    /\ \/ data.objects # "absent"
       \/ data.elements # "absent"
       \/ data.content = "dict" /\ data.cObjects # "absent"

\* calls started, diagram ids with a successfully completed call, the HTTP
\* request the last step issued ("none" if it issued none), and whether a
\* response of the current call carried an objects value
RlogInit == [calls |-> 0, completed |-> {}, req |-> "none", carried |-> FALSE]

ResolverIdle == diagram_cache = EmptyDict /\ rs = RsInit /\ rlog = RlogInit

\* main.py:171-195: the cache lookup, the primary fetch and its parsing.
GetDiagramData_Begin ==
    /\ rs.pc \in {"idle", "done"}
    /\ rlog.calls < MaxResolverCalls
    /\ \E diagram_id \in DiagramIds, rdia \in PrimaryResponses :
         IF diagram_id \in DOMAIN diagram_cache
         THEN /\ rs' = Frame("done", diagram_id, 0, NoneVal, NoneVal, 0,
                             diagram_cache[diagram_id])
              /\ rlog' = [rlog EXCEPT !.calls = @ + 1, !.req = "none",
                                       !.carried = FALSE]
         ELSE IF rdia.status # 200
         THEN /\ rs' = Frame("done", diagram_id, rdia.status, NoneVal, NoneVal,
                             0, RetNone)
              /\ rlog' = [rlog EXCEPT !.calls = @ + 1, !.req = "primary",
                                       !.carried = FALSE]
         ELSE LET p == PrimaryParse(rdia) IN
              /\ rs' = Frame(IF ~Truthy(p.objects) \/ ~Truthy(p.relationships)
                             THEN "loop" ELSE "cleanup",
                             diagram_id, rdia.status, p.objects,
                             p.relationships, 1, RetNone)
              /\ rlog' = [rlog EXCEPT !.calls = @ + 1, !.req = "primary",
                                       !.carried = PrimaryCarriesObjects(rdia)]
    /\ UNCHANGED <<diagram_cache, model_objects, mo, mdia, seq, rd, dg, fl>>

\* main.py:203-258: the fetch of the next sub-resource and what is taken from it.
GetDiagramData_Probe ==
    /\ rs.pc = "loop"
    /\ \E r_sub \in SubResponses :
         LET p == ProbeStep(rs.i, r_sub, rs.objects, rs.relationships) IN
         /\ rs' = [rs EXCEPT !.objects = p.objects,
                             !.relationships = p.relationships,
                             !.pc = IF p.brk \/ rs.i = Len(Suffixes)
                                    THEN "cleanup" ELSE "loop",
                             !.i = IF p.brk \/ rs.i = Len(Suffixes)
                                   THEN rs.i ELSE rs.i + 1]
         /\ rlog' = [rlog EXCEPT !.req = Suffixes[rs.i],
                                  !.carried = @ \/ SubCarriesObjects(r_sub)]
    /\ UNCHANGED <<diagram_cache, model_objects, mo, mdia, seq, rd, dg, fl>>

\* main.py:260-275: the final cleanup and the return.  The function returns
\* without writing diagram_cache.
GetDiagramData_Finish ==
    /\ rs.pc = "cleanup"
    /\ rs' = [rs EXCEPT !.pc = "done",
                        !.ret = Cleanup(rs.objects, rs.relationships)]
    /\ rlog' = [rlog EXCEPT !.completed = @ \cup {rs.d}, !.req = "none"]
    /\ UNCHANGED <<diagram_cache, model_objects, mo, mdia, seq, rd, dg, fl>>

(***************************************************************************)
(* main in diagram mode (main.py:349-508).  objects is the resolved        *)
(* objects map in its iteration order: a sequence of diagram objects       *)
(* [id, modelId, parentId, name, boundary]; name is NoText when the object *)
(* has none, boundary tells that its type is "boundary" or that it has a   *)
(* "style" key.  relationships is a sequence of                            *)
(* [sourceId, targetId, label, modelId].                                   *)
(***************************************************************************)
DiagramObject(id, modelId, parentId, name, boundary) ==
    [id |-> id, modelId |-> modelId, parentId |-> parentId, name |-> name,
     boundary |-> boundary]

Relationship(sourceId, targetId, label, modelId) ==
    [sourceId |-> sourceId, targetId |-> targetId, label |-> label,
     modelId |-> modelId]

ObjectKeys(objects) == {objects[i].id : i \in DOMAIN objects}

ObjectOf(objects, id) == objects[CHOOSE i \in DOMAIN objects : objects[i].id = id]

\* main.py:366-370: diagram id -> model id, for the objects that have a
\* modelId, in the iteration order of objects
DiaToModel(objects) ==
    LET with == SelectSeq(objects, LAMBDA o : o.modelId # None)
    IN  [i \in DOMAIN with |-> [k |-> with[i].id, v |-> with[i].modelId]]

\* [k for k, v in dia_to_model.items() if v == model_id]
Candidates(dia_to_model, model_id) ==
    LET hits == SelectSeq(dia_to_model, LAMBDA e : e.v = model_id)
    IN  [i \in DOMAIN hits |-> hits[i].k]

\* main.py:431: sorted() is stable; objects without modelId come first
SortedItems(objects) ==
    SelectSeq(objects, LAMBDA o : o.modelId = None)
    \o SelectSeq(objects, LAMBDA o : o.modelId # None)

GroupName == <<"Group">>

\* p_data.get("name", "Group")
NameOrGroup(p_data) == IF p_data.name = NoText THEN GroupName ELSE p_data.name

\* main.py:452-456 and 473-474: a parent that is not a node yet and is a key
\* of objects is added with its own name and its own parentId
EnsureParent(nodes, objects, parent_id) ==
    IF parent_id # None /\ parent_id \notin NodeKeys(nodes)
       /\ parent_id \in ObjectKeys(objects)
    THEN AddNode(nodes, parent_id, NameOrGroup(ObjectOf(objects, parent_id)),
                 ObjectOf(objects, parent_id).parentId)
    ELSE nodes

\* main.py:433-477: one iteration of the loop over sorted_items, for the
\* object obj; resp is what the model-objects endpoint answers if asked.
\* The result is the nodes and the store afterwards.
HierarchyStep(nodes, store, objects, obj, resp) ==
    IF obj.modelId # None
    THEN LET got == GetModelObject(store, obj.modelId, resp)
             model_obj == got.ret
             candidates ==
                 Candidates(DiaToModel(objects), model_obj.parentId)
             final_parent_id ==
                 IF obj.parentId = None /\ model_obj.parentId # None
                    /\ candidates # <<>>
                 THEN candidates[1]
                 ELSE obj.parentId
         IN  [nodes |-> AddNode(EnsureParent(nodes, objects, final_parent_id),
                                obj.id, model_obj.name, final_parent_id),
              store |-> got.store]
    ELSE IF obj.name = NoText /\ ~obj.boundary
    THEN [nodes |-> nodes, store |-> store]
    ELSE LET name == IF obj.name = NoText THEN GroupName ELSE obj.name
             ensured == EnsureParent(nodes, objects, obj.parentId)
         IN  [nodes |-> IF obj.id \notin NodeKeys(ensured)
                        THEN AddNode(ensured, obj.id, name, obj.parentId)
                        ELSE ensured,
              store |-> store]

\* A slip in the guard of main.py:494: one known end is taken to be enough.
LinkEndsKnown_Either(nodes, objects, source_id, target_id) ==
    \/ source_id \in ObjectKeys(objects) \/ source_id \in NodeKeys(nodes)
    \/ target_id \in ObjectKeys(objects) \/ target_id \in NodeKeys(nodes)

\* main.py:494: both ends are keys of objects or nodes
LinkEndsKnown(nodes, objects, source_id, target_id) ==
    /\ source_id \in ObjectKeys(objects) \/ source_id \in NodeKeys(nodes)
    /\ target_id \in ObjectKeys(objects) \/ target_id \in NodeKeys(nodes)

\* main.py:482-495: one iteration of the loop over relationships.  The label
\* is the relationship's, else the name of its model object.
LinkStep(links, nodes, store, objects, rel, resp) ==
    LET ask == rel.label = NoText /\ rel.modelId # None
        got == GetModelObject(store, rel.modelId, resp)
        label == IF ask THEN got.ret.name ELSE rel.label
    IN  [links |-> IF LinkEndsKnown(nodes, objects, rel.sourceId, rel.targetId)
                   THEN AddLink(links, rel.sourceId, rel.targetId, label)
                   ELSE links,
         store |-> IF ask THEN got.store ELSE store]

\* The model-objects answers that matter to main: no object body, or the
\* object asked for, with any structural parent.
ModelResponsesFor(model_id) ==
    { r \in ModelResponses :
        \/ r.shape = "error"
        \/ r.shape = "bare" /\ r.obj.id = model_id /\ r.obj.name = <<"Svc">> }

\* A model connection of the model-connections resource: the two ends under
\* originId / targetId or under sourceId / destinationId, flagged when the
\* connection's "diagrams" map has this diagram's id as a key.
Connection(originId, sourceId, targetId, destinationId, flagged) ==
    [originId |-> originId, sourceId |-> sourceId, targetId |-> targetId,
     destinationId |-> destinationId, flagged |-> flagged,
     name |-> <<"uses">>, id |-> 7]

\* main.py:392: conn.get("originId") or conn.get("sourceId")
SourceModel(conn) ==
    IF conn.originId # None THEN conn.originId ELSE conn.sourceId

\* main.py:393: conn.get("targetId") or conn.get("destinationId")
TargetModel(conn) ==
    IF conn.targetId # None THEN conn.targetId ELSE conn.destinationId

\* main.py:386
DiagramModelIds(dia_to_model) == {dia_to_model[i].v : i \in DOMAIN dia_to_model}

\* A slip: only the connections flagged for this diagram are taken.
ConnectionAccepted_FlaggedOnly(dia_to_model, conn) ==
    /\ SourceModel(conn) \in DiagramModelIds(dia_to_model)
    /\ TargetModel(conn) \in DiagramModelIds(dia_to_model)
    /\ conn.flagged

\* main.py:395 and 407
ConnectionAccepted(dia_to_model, conn) ==
    /\ SourceModel(conn) \in DiagramModelIds(dia_to_model)
    /\ TargetModel(conn) \in DiagramModelIds(dia_to_model)
    /\ \/ conn.flagged
       \/ /\ SourceModel(conn) \in DiagramModelIds(dia_to_model)
          /\ TargetModel(conn) \in DiagramModelIds(dia_to_model)

\* main.py:408-413
InferredRelationship(dia_to_model, conn) ==
    Relationship(Candidates(dia_to_model, SourceModel(conn))[1],
                 Candidates(dia_to_model, TargetModel(conn))[1],
                 conn.name, conn.id)

\* main.py:391-413: the loop over all_conns appends to relationships
RECURSIVE InferLoop(_, _, _)
InferLoop(dia_to_model, all_conns, relationships) ==
    IF all_conns = <<>> THEN relationships
    ELSE InferLoop(dia_to_model, Tail(all_conns),
                   IF ConnectionAccepted(dia_to_model, Head(all_conns))
                   THEN Append(relationships,
                               InferredRelationship(dia_to_model, Head(all_conns)))
                   ELSE relationships)

\* main.py:378-414, given the answer of the model-connections resource
InferRelationships(objects, relationships, r_conns) ==
    IF r_conns.status = 200
    THEN InferLoop(DiaToModel(objects), r_conns.modelConnections, relationships)
    ELSE relationships

\* main's locals in diagram mode.  pc: "infer" (before main.py:365), "nodes"
\* (in the loop of main.py:433), "links" (in the loop of main.py:482),
\* "print" (before main.py:497), "write" (before main.py:502), "done".
\* added[j] tells whether relationship j was given to add_link.
\* given is what the resolver returned as relationships; conn_req tells
\* whether the model-connections resource was fetched, all_conns what it
\* answered.
Dg(pc, objects, relationships, i, j, added) ==
    [pc |-> pc, objects |-> objects, relationships |-> relationships,
     i |-> i, j |-> j, added |-> added, given |-> relationships,
     conn_req |-> FALSE, all_conns |-> <<>>]

DgIdle == Dg("idle", <<>>, <<>>, 0, 0, <<>>)

(***************************************************************************)
(* Flow mode: get_diagram_object (main.py:278-292) and main's loop over    *)
(* the steps of a flow (main.py:529-559).                                  *)
(***************************************************************************)
\* A step of the flow.  Its type is never rendered.
FlowStep(id, index, originId, targetId, description) ==
    [id |-> id, index |-> index, originId |-> originId, targetId |-> targetId,
     description |-> description]

\* the value None where a diagram object is expected
NoObject == DiagramObject(None, None, None, NoText, FALSE)

\* What get_diagram_data returns to get_diagram_object: None (ok is FALSE)
\* or the diagram with its objects.
DiagramAnswer(ok, objects) == [ok |-> ok, objects |-> objects]

\* main.py:278-292.  dia is what get_diagram_data returns if called.
GetDiagramObject(dia, object_id) ==
    IF object_id = None THEN NoObject
    ELSE IF ~dia.ok THEN NoObject
    ELSE IF object_id \notin ObjectKeys(dia.objects) THEN NoObject
    ELSE ObjectOf(dia.objects, object_id)

\* sorted() is stable: a step goes after the steps whose index is not larger
RECURSIVE InsertStep(_, _)
InsertStep(sorted, v) ==
    IF sorted = <<>> THEN <<v>>
    ELSE IF Head(sorted).index <= v.index
    THEN <<Head(sorted)>> \o InsertStep(Tail(sorted), v)
    ELSE <<v>> \o sorted

\* A slip: the steps are taken in the order of the flow's map.
SortSteps_Unsorted(steps) == steps

\* main.py:529: the steps in ascending order of "index"
RECURSIVE SortSteps(_)
SortSteps(steps) ==
    IF steps = <<>> THEN <<>>
    ELSE InsertStep(SortSteps(SubSeq(steps, 1, Len(steps) - 1)),
                    steps[Len(steps)])

\* main's locals in flow mode.  pc: "sort" (before main.py:529), "steps"
\* (the loop), "print" (553), "write" (559), "done".  flow_steps is
\* flow["steps"] in the order of the map, steps the sorted map, k the next
\* step of the loop.  log keeps, per step handled, whether its origin was
\* resolved and the ids of the participants made for it.
Fl(pc, flow_steps) ==
    [pc |-> pc, flow_steps |-> flow_steps, steps |-> <<>>, k |-> 1,
     log |-> <<>>]

FlIdle == Fl("idle", <<>>)

\* The model-objects answers that matter in flow mode: no object body, or
\* the object asked for.
FlowModelResponses(model_id) ==
    { r \in ModelResponsesFor(model_id) : r.obj.parentId = None }

\* main.py:529
Flow_Sort ==
    /\ fl.pc = "sort"
    /\ fl' = [fl EXCEPT !.pc = "steps", !.steps = SortSteps(fl.flow_steps)]
    /\ UNCHANGED <<model_objects, mo, diagram_cache, rs, rlog, mdia, seq, rd, dg>>

\* main.py:531-552, one step.  answers: what get_diagram_data may return.
Flow_Step(answers) ==
    /\ fl.pc = "steps"
    /\ fl.k <= Len(fl.steps)
    /\ LET v == fl.steps[fl.k] IN
       \E dia_ori \in answers, dia_tar \in answers :
         LET dia_obj_ori == GetDiagramObject(dia_ori, v.originId) IN
         IF dia_obj_ori = NoObject
         THEN /\ fl' = [fl EXCEPT !.k = @ + 1,
                                  !.log = Append(@, [step |-> v.id,
                                                     resolved |-> FALSE,
                                                     source_id |-> None,
                                                     target_id |-> None])]
              /\ UNCHANGED <<model_objects, seq>>
         ELSE
           LET dia_obj_tar == IF v.targetId # None
                              THEN GetDiagramObject(dia_tar, v.targetId)
                              ELSE NoObject
           IN
           \E resp_ori \in FlowModelResponses(dia_obj_ori.modelId),
              resp_tar \in FlowModelResponses(dia_obj_tar.modelId) :
             LET got_ori == GetModelObject(model_objects, dia_obj_ori.modelId,
                                           resp_ori)
                 has_tar == dia_obj_tar # NoObject
                 got_tar == GetModelObject(got_ori.store, dia_obj_tar.modelId,
                                           resp_tar)
                 participant_ori == [id |-> got_ori.ret.id,
                                     name |-> got_ori.ret.name]
                 participant_tar == [id |-> got_tar.ret.id,
                                     name |-> got_tar.ret.name]
                 with_ori == AddParticipant(seq.participants, participant_ori)
                 interaction ==
                     [description |-> v.description,
                      source_id |-> participant_ori.id,
                      target_id |-> IF has_tar THEN participant_tar.id
                                    ELSE None]
             IN
             /\ model_objects' = IF has_tar THEN got_tar.store
                                 ELSE got_ori.store
             /\ seq' = [participants |->
                            IF has_tar
                            THEN AddParticipant(with_ori, participant_tar)
                            ELSE with_ori,
                        sequence_steps |->
                            AddSequenceStep(seq.sequence_steps, interaction)]
             /\ fl' = [fl EXCEPT !.k = @ + 1,
                                 !.log = Append(@, [step |-> v.id,
                                                    resolved |-> TRUE,
                                                    source_id |-> participant_ori.id,
                                                    target_id |-> interaction.target_id])]
    /\ UNCHANGED <<mo, diagram_cache, rs, rlog, mdia, rd, dg>>

\* main.py:553: print(seq.generate())
Flow_Print ==
    /\ fl.pc = "steps"
    /\ fl.k > Len(fl.steps)
    /\ rd' = Generated(SeqGenerate(seq.participants, seq.sequence_steps))
    /\ fl' = [fl EXCEPT !.pc = "write"]
    /\ UNCHANGED <<model_objects, mo, diagram_cache, rs, rlog, mdia, seq, dg>>

\* main.py:558-560: f.write(seq.generate())
Flow_Write ==
    /\ fl.pc = "write"
    /\ rd' = Generated(SeqGenerate(seq.participants, seq.sequence_steps))
    /\ fl' = [fl EXCEPT !.pc = "done"]
    /\ UNCHANGED <<model_objects, mo, diagram_cache, rs, rlog, mdia, seq, dg>>

MainIdle == dg = DgIdle /\ fl = FlIdle

NodesDone(objects, i) ==
    IF i >= Len(SortedItems(objects)) THEN "links" ELSE "nodes"

LinksDone(relationships, j) ==
    IF j >= Len(relationships) THEN "print" ELSE "links"

\* main.py:365-416: the model connections are fetched only when the
\* resolver gave no relationships.  r_conns ranges over ConnectionResponses.
Main_Infer(responses) ==
    /\ dg.pc = "infer"
    /\ IF dg.relationships = <<>>
       THEN \E r_conns \in responses :
              dg' = [dg EXCEPT !.pc = NodesDone(dg.objects, 0),
                               !.relationships =
                                   InferRelationships(dg.objects, @, r_conns),
                               !.conn_req = TRUE,
                               !.all_conns = r_conns.modelConnections]
       ELSE dg' = [dg EXCEPT !.pc = NodesDone(dg.objects, 0)]
    /\ UNCHANGED <<model_objects, mo, diagram_cache, rs, rlog, mdia, seq, rd, fl>>

\* main.py:433-477, one object
Main_Node ==
    /\ dg.pc = "nodes"
    /\ dg.i < Len(SortedItems(dg.objects))
    /\ LET obj == SortedItems(dg.objects)[dg.i + 1] IN
       \E resp \in ModelResponsesFor(obj.modelId) :
         LET h == HierarchyStep(mdia.nodes, model_objects, dg.objects, obj, resp)
         IN  /\ mdia' = [mdia EXCEPT !.nodes = h.nodes]
             /\ model_objects' = h.store
    /\ dg' = [dg EXCEPT !.i = @ + 1,
                        !.pc = IF dg.i + 1 < Len(SortedItems(dg.objects))
                               THEN "nodes"
                               ELSE LinksDone(dg.relationships, 0)]
    /\ UNCHANGED <<mo, diagram_cache, rs, rlog, seq, rd, fl>>

\* main.py:482-495, one relationship
Main_Link ==
    /\ dg.pc = "links"
    /\ dg.j < Len(dg.relationships)
    /\ LET rel == dg.relationships[dg.j + 1] IN
       \E resp \in ModelResponsesFor(rel.modelId) :
         LET l == LinkStep(mdia.links, mdia.nodes, model_objects, dg.objects,
                           rel, resp)
         IN  /\ mdia' = [mdia EXCEPT !.links = l.links]
             /\ model_objects' = l.store
             /\ dg' = [dg EXCEPT !.j = @ + 1,
                                 !.pc = LinksDone(dg.relationships, dg.j + 1),
                                 !.added = Append(@, l.links # mdia.links)]
    /\ UNCHANGED <<mo, diagram_cache, rs, rlog, seq, rd, fl>>

\* main.py:497: print(mdia.generate())
Main_Print ==
    /\ dg.pc = "print"
    /\ LET g == Generate(mdia.nodes, mdia.links) IN
       /\ mdia' = [mdia EXCEPT !.nodes = g.nodes]
       /\ rd' = Generated(g.text)
    /\ dg' = [dg EXCEPT !.pc = "write"]
    /\ UNCHANGED <<model_objects, mo, diagram_cache, rs, rlog, seq, fl>>

\* main.py:499-503: f.write(mdia.generate())
Main_Write ==
    /\ dg.pc = "write"
    /\ LET g == Generate(mdia.nodes, mdia.links) IN
       /\ mdia' = [mdia EXCEPT !.nodes = g.nodes]
       /\ rd' = Generated(g.text)
    /\ dg' = [dg EXCEPT !.pc = "done"]
    /\ UNCHANGED <<model_objects, mo, diagram_cache, rs, rlog, seq, fl>>

NextDiagram == Main_Node \/ Main_Link \/ Main_Print \/ Main_Write

\* The objects maps of at most n objects: object number i has id i; a
\* parentId is None, the id of an object, or an id that is not in the map
\* (above n); an object is model-backed (it has no name of its own), or a
\* group that is named, a nameless boundary, or nameless and no boundary.
ObjectChoices(id, parents, models) ==
    { DiagramObject(id, m, q, NoText, FALSE) : m \in models, q \in parents }
    \cup { DiagramObject(id, None, q, <<"G">>, FALSE) : q \in parents }
    \cup { DiagramObject(id, None, q, NoText, b) : q \in parents, b \in BOOLEAN }

RECURSIVE ObjectMaps(_, _, _)
ObjectMaps(n, parents, models) ==
    IF n = 0 THEN {<<>>}
    ELSE LET shorter == ObjectMaps(n - 1, parents, models) IN
         shorter
         \cup { Append(os, o) :
                  os \in {x \in shorter : Len(x) = n - 1},
                  o \in ObjectChoices(n, parents, models) }

(***************************************************************************)
(* The resolver on its own: any calls of get_diagram_data.                 *)
(***************************************************************************)
InitResolver == StoreIdle /\ ResolverIdle /\ RenderIdle /\ MainIdle

NextResolver ==
    \/ GetDiagramData_Begin
    \/ GetDiagramData_Probe
    \/ GetDiagramData_Finish

SpecResolver == InitResolver /\ [][NextResolver]_vars

(***************************************************************************)
(* C1: once one call of the resolver for diagram id d has completed        *)
(* successfully, every later call for d returns the stored result and      *)
(* issues no further HTTP request, primary or sub-resource.                *)
(***************************************************************************)
C1_MemoizedNoRefetch ==
    [][ rs'.d \in rlog.completed
          => /\ rlog'.req = "none"
             /\ rs'.d \in DOMAIN diagram_cache
             /\ rs'.pc = "done"
             /\ rs'.ret = diagram_cache[rs'.d] ]_vars

InitStore == StoreIdle /\ ResolverIdle /\ RenderIdle /\ MainIdle

NextStore == CallGetModelObject

SpecStore == InitStore /\ [][NextStore]_vars

(***************************************************************************)
(* C3: over any sequence of get_model_object calls, a non-None id is       *)
(* fetched at most once (also when the fetch soft-fails), every later call *)
(* for it returns what the first call returned, a stored entry is never    *)
(* overwritten, and a call with id None fetches nothing and writes nothing *)
(* to the store.                                                           *)
(***************************************************************************)
C3_FetchOnceAndStable ==
    [][ /\ \A i \in ModelIds : mo'.fetches[i] <= 1
        /\ \A i \in DOMAIN model_objects :
             i \in DOMAIN model_objects' /\ model_objects'[i] = model_objects[i]
        /\ (mo'.id # None /\ mo'.id \in DOMAIN mo.first)
             => (mo'.ret = mo.first[mo'.id] /\ ~mo'.fetched)
        /\ mo'.id = None
             => (~mo'.fetched /\ model_objects' = model_objects
                 /\ None \notin DOMAIN model_objects') ]_vars

\* a second call for an id whose first fetch soft-failed, and a None call
C3_Witness ==
    /\ mo.calls = 3
    /\ mo.id # None
    /\ ~mo.fetched
    /\ mo.ret = DummyModelObject(mo.id)
    /\ mo.fetches[mo.id] = 1
    /\ Cardinality(DOMAIN model_objects) = 1

(***************************************************************************)
(* main in diagram mode: the hierarchy of any objects map.                 *)
(***************************************************************************)
MaxDiaObjects == 3

\* The hierarchy is built for any objects map; one labelled relationship
\* between the first two objects follows.
InitHierarchy ==
    /\ StoreIdle /\ ResolverIdle
    /\ mdia = MdiaInit /\ seq = SeqInit /\ rd = RdInit("diagram")
    /\ fl = FlIdle
    /\ \E objects \in ObjectMaps(MaxDiaObjects, 0..(MaxDiaObjects + 1), ModelIds) :
         dg = Dg(NodesDone(objects, 0), objects,
                 <<Relationship(1, 2, <<"uses">>, None)>>, 0, 0, <<>>)

SpecHierarchy == InitHierarchy /\ [][NextDiagram]_vars

(***************************************************************************)
(* C4: after the hierarchy is built for any map of diagram objects, every  *)
(* render node whose parent reference is set has that parent present as a  *)
(* render node of the same diagram, inserted before the child.             *)
(***************************************************************************)
C4_ParentsMaterializedFirst ==
    dg.pc \in {"links", "print", "write", "done"}
      => \A i \in DOMAIN mdia.nodes :
           mdia.nodes[i].parent # None
             => \E j \in 1..(i - 1) : mdia.nodes[j].key = mdia.nodes[i].parent

(***************************************************************************)
(* C5: during sub-resource probing each of the two outputs keeps the first *)
(* non-empty value found for it: once objects or relationships is          *)
(* non-empty, no later response replaces or empties it.                    *)
(***************************************************************************)
C5_FirstNonEmptyKept ==
    [][ (rs.pc = "loop" /\ rs'.pc \in {"loop", "cleanup"})
          => /\ Truthy(rs.objects) => rs'.objects = rs.objects
             /\ Truthy(rs.relationships) => rs'.relationships = rs.relationships
      ]_vars

(***************************************************************************)
(* MermaidDiagram and MermaidSequence on their own.                        *)
(***************************************************************************)
InitRender ==
    /\ StoreIdle /\ ResolverIdle /\ MainIdle
    /\ mdia = MdiaInit /\ seq = SeqInit
    /\ \E mode \in {"diagram", "flow"} : rd = RdInit(mode)

NextRender ==
    \/ Call_add_node
    \/ Call_add_link
    \/ Call_generate
    \/ Call_add_participant
    \/ Call_add_sequence_step
    \/ Call_seq_generate

SpecRender == InitRender /\ [][NextRender]_vars

(***************************************************************************)
(* C6: for any flowchart graph, two MermaidDiagram.generate calls in a row *)
(* with no add_node / add_link between them return identical text; and two *)
(* MermaidSequence.generate calls in a row return identical text.          *)
(***************************************************************************)
C6_GenerateIdempotent == rd.gens = 2 => rd.out = rd.prev

\* generated twice: a subgraph with a child and a printed link
C6_Witness ==
    /\ rd.mode = "diagram"
    /\ rd.gens = 2
    /\ \E i \in DOMAIN rd.out : rd.out[i].kind = "subgraph"
    /\ \E i \in DOMAIN rd.out : rd.out[i].kind = "edge-label"

(***************************************************************************)
(* main in diagram mode: the links of any relationships.                   *)
(***************************************************************************)
MaxRels == 1

\* two objects at most; object 1 may be the parent; ids 0 (None) and 3 are
\* no keys of the map
LinkObjectMaps == ObjectMaps(2, {None, 1}, {1})

LinkRelationships ==
    { Relationship(a, b, lm[1], lm[2]) :
        a \in 0..3, b \in 0..3, lm \in {<<<<"uses">>, None>>, <<NoText, 1>>} }

RECURSIVE SeqsUpTo(_, _)
SeqsUpTo(S, n) ==
    IF n = 0 THEN {<<>>}
    ELSE LET shorter == SeqsUpTo(S, n - 1) IN
         shorter \cup { Append(x, e) : x \in {y \in shorter : Len(y) = n - 1},
                                       e \in S }

InitLinks ==
    /\ StoreIdle /\ ResolverIdle
    /\ mdia = MdiaInit /\ seq = SeqInit /\ rd = RdInit("diagram")
    /\ fl = FlIdle
    /\ \E objects \in LinkObjectMaps,
          relationships \in SeqsUpTo(LinkRelationships, MaxRels) :
         dg = Dg(NodesDone(objects, 0), objects, relationships, 0, 0, <<>>)

SpecLinks == InitLinks /\ [][NextDiagram]_vars

\* the relationships given to add_link, in order: link number n was made
\* from the n-th of them
AddedRelationships ==
    LET idx == SelectSeq([j \in DOMAIN dg.added |-> j], LAMBDA j : dg.added[j])
    IN  [n \in DOMAIN idx |-> dg.relationships[idx[n]]]

EdgeLines == SelectSeq(rd.out, LAMBDA l : l.kind \in {"edge", "edge-label"})

(***************************************************************************)
(* C7: a relationship whose sourceId (or targetId) is neither a key of the *)
(* resolved objects map nor a built render node gets no link and no edge   *)
(* line in the flowchart output; every edge line that is printed connects  *)
(* two nodes that exist in the graph.                                      *)
(***************************************************************************)
C7_LinksOnlyBetweenKnownEnds ==
    /\ \A j \in DOMAIN dg.added :
         LET rel == dg.relationships[j] IN
         (\/ rel.sourceId \notin ObjectKeys(dg.objects) \cup NodeKeys(mdia.nodes)
          \/ rel.targetId \notin ObjectKeys(dg.objects) \cup NodeKeys(mdia.nodes))
           => ~dg.added[j]
    /\ Len(mdia.links) = Len(AddedRelationships)
    /\ \A n \in DOMAIN EdgeLines :
         LET line == EdgeLines[n] IN
         /\ line.ref \in DOMAIN mdia.links
         /\ mdia.links[line.ref].source = AddedRelationships[line.ref].sourceId
         /\ mdia.links[line.ref].target = AddedRelationships[line.ref].targetId
         /\ \E i, k \in DOMAIN mdia.nodes :
              /\ mdia.nodes[i].key = mdia.links[line.ref].source
              /\ mdia.nodes[k].key = mdia.links[line.ref].target
              /\ line.a = mdia.nodes[i].id
              /\ line.b = mdia.nodes[k].id

\* a relationship from an id that is no key and no node, after the output
\* was written: no link, no edge line
C7_Witness ==
    /\ dg.pc = "done"
    /\ Len(mdia.nodes) = 2
    /\ dg.relationships # <<>>
    /\ dg.relationships[1].sourceId = 3
    /\ dg.relationships[1].targetId = 1
    /\ dg.added = <<FALSE>>
    /\ EdgeLines = <<>>

(***************************************************************************)
(* main in flow mode.                                                      *)
(***************************************************************************)
MaxSteps == 2

\* The diagram of the flow: object 1 and object 2 are model-backed, object 3
\* is a group without a modelId; 4 is no object of the diagram.
FlowObjects ==
    <<DiagramObject(1, 1, None, NoText, FALSE),
      DiagramObject(2, 2, None, NoText, FALSE),
      DiagramObject(3, None, None, <<"G">>, FALSE)>>

\* get_diagram_data fetches anew at each call: it fails or brings the diagram
FlowDiagramAnswers ==
    {DiagramAnswer(FALSE, <<>>), DiagramAnswer(TRUE, FlowObjects)}

StepDescription(id) == <<"step ", ToString(id)>>

StepShapes ==
    [index : {0, 1}, originId : {None, 1, 4}, targetId : {None, 2, 3, 4}]

\* The steps maps of at most MaxSteps steps: step number i has id i.
FlowStepMaps ==
    { [i \in DOMAIN x |-> FlowStep(i, x[i].index, x[i].originId, x[i].targetId,
                                   StepDescription(i))] :
        x \in SeqsUpTo(StepShapes, MaxSteps) }

InitFlow ==
    /\ StoreIdle /\ ResolverIdle
    /\ mdia = MdiaInit /\ seq = SeqInit /\ rd = RdInit("flow")
    /\ dg = DgIdle
    /\ \E flow_steps \in FlowStepMaps : fl = Fl("sort", flow_steps)

NextFlow ==
    Flow_Sort \/ Flow_Step(FlowDiagramAnswers) \/ Flow_Print \/ Flow_Write

SpecFlow == InitFlow /\ [][NextFlow]_vars

\* the interaction lines of the last output
InteractionLines ==
    SelectSeq(rd.out, LAMBDA l : l.kind \in {"-->>", "->>"})

\* what the loop noted for the steps it emitted, in the order of emission
Emitted == SelectSeq(fl.log, LAMBDA e : e.resolved)

FlowStepOf(id) ==
    fl.flow_steps[CHOOSE i \in DOMAIN fl.flow_steps : fl.flow_steps[i].id = id]

OriginResolved(id) ==
    \E n \in DOMAIN fl.log : fl.log[n].step = id /\ fl.log[n].resolved

(***************************************************************************)
(* C8: every emitted flow step is rendered with its description as the     *)
(* label; a step whose targetId is None is a self-directed arrow from the  *)
(* origin participant to itself, and a step whose targetId is set is a     *)
(* directed arrow from the origin participant's id to the target           *)
(* participant's id, never a self-arrow.                                   *)
(***************************************************************************)
C8_TargetedStepsAreDirected ==
    rd.gens >= 1 =>
      /\ Len(InteractionLines) = Len(Emitted)
      /\ \A n \in DOMAIN Emitted :
           LET v == FlowStepOf(Emitted[n].step)
               l == InteractionLines[n]
           IN  /\ l.text = v.description
               /\ l.a = IdChunks(Emitted[n].source_id)
               /\ IF v.targetId = None
                  THEN l.kind = "-->>" /\ l.b = l.a
                  ELSE l.kind = "->>"

(***************************************************************************)
(* C9: the interaction lines of the sequence output are exactly the steps  *)
(* whose origin object resolves in the flow's diagram, one line per such   *)
(* step, in ascending order of the steps' index; a step whose origin does  *)
(* not resolve has no line and brings no participant.                      *)
(***************************************************************************)
C9_ResolvedStepsInIndexOrder ==
    rd.gens >= 1 =>
      /\ \A i \in DOMAIN fl.flow_steps :
           LET v == fl.flow_steps[i]
               mine == {n \in DOMAIN InteractionLines :
                          InteractionLines[n].text = v.description}
           IN  Cardinality(mine) = IF OriginResolved(v.id) THEN 1 ELSE 0
      /\ Len(InteractionLines) =
           Cardinality({i \in DOMAIN fl.flow_steps :
                          OriginResolved(fl.flow_steps[i].id)})
      /\ \A m \in DOMAIN InteractionLines, n \in DOMAIN InteractionLines :
           m < n =>
             \A i \in DOMAIN fl.flow_steps, j \in DOMAIN fl.flow_steps :
               /\ fl.flow_steps[i].description = InteractionLines[m].text
               /\ fl.flow_steps[j].description = InteractionLines[n].text
               => fl.flow_steps[i].index <= fl.flow_steps[j].index
      /\ \A p \in DOMAIN seq.participants :
           \E n \in DOMAIN Emitted :
             seq.participants[p].id \in {Emitted[n].source_id, Emitted[n].target_id}

\* step 1 has the larger index and resolves, step 2 has the smaller index
\* and resolves too: the output has step 2's line, then step 1's
C9_Witness ==
    /\ rd.gens >= 1
    /\ Len(fl.flow_steps) = 2
    /\ fl.flow_steps[1].index = 1 /\ fl.flow_steps[2].index = 0
    /\ OriginResolved(1) /\ OriginResolved(2)
    /\ Len(InteractionLines) = 2
    /\ InteractionLines[1].text = StepDescription(2)
    /\ InteractionLines[2].text = StepDescription(1)

\* a step is dropped between none and one that is kept
C9_WitnessDropped ==
    /\ rd.gens >= 1
    /\ Len(fl.flow_steps) = 2
    /\ ~OriginResolved(1) /\ OriginResolved(2)
    /\ Len(InteractionLines) = 1
    /\ seq.participants # <<>>

(***************************************************************************)
(* main in diagram mode: the inference of relationships.                   *)
(***************************************************************************)
MaxConns == 2

ConnectionChoices ==
    { Connection(a, None, b, None, f) : a \in 0..2, b \in 0..2, f \in BOOLEAN }
    \cup { Connection(None, a, None, b, f) : a \in 1..2, b \in 1..2, f \in BOOLEAN }

\* an error answer carries no list of connections
ConnectionResponses ==
    {[status |-> 404, modelConnections |-> <<>>]}
    \cup [status : {200}, modelConnections : SeqsUpTo(ConnectionChoices, MaxConns)]

InferObjectMaps == ObjectMaps(2, {None}, ModelIds)

InitInfer ==
    /\ StoreIdle /\ ResolverIdle
    /\ mdia = MdiaInit /\ seq = SeqInit /\ rd = RdInit("diagram")
    /\ fl = FlIdle
    /\ \E objects \in InferObjectMaps,
          relationships \in {<<>>, <<Relationship(1, 2, <<"uses">>, None)>>} :
         dg = Dg("infer", objects, relationships, 0, 0, <<>>)

NextInfer == Main_Infer(ConnectionResponses)

SpecInfer == InitInfer /\ [][NextInfer]_vars

\* the model ids of the objects of this diagram
ModelIdsInDiagram ==
    {dg.objects[i].modelId : i \in DOMAIN dg.objects} \ {None}

\* the first object, in the map's iteration order, that carries model id m
FirstObjectWith(m) ==
    dg.objects[CHOOSE i \in DOMAIN dg.objects :
                 /\ dg.objects[i].modelId = m
                 /\ \A k \in 1..(i - 1) : dg.objects[k].modelId # m].id

\* the fetched connections whose two ends are model ids of this diagram
ConnectionsInDiagram ==
    SelectSeq(dg.all_conns,
              LAMBDA c : /\ SourceModel(c) \in ModelIdsInDiagram
                         /\ TargetModel(c) \in ModelIdsInDiagram)

(***************************************************************************)
(* C10: when the resolver yields zero relationships, the inferred          *)
(* relationships are exactly one per model connection whose origin and     *)
(* destination are both modelIds of objects of this diagram (whatever the  *)
(* connection's visibility map says), each from and to the first object,   *)
(* in the map's iteration order, with that modelId; a connection with an   *)
(* end outside the diagram yields nothing; and when the resolver yields a  *)
(* relationship the model-connections resource is not fetched.             *)
(***************************************************************************)
C10_InferredFromConnections ==
    dg.pc # "infer"
      => IF dg.given = <<>>
         THEN /\ dg.conn_req
              /\ Len(dg.relationships) = Len(ConnectionsInDiagram)
              /\ \A n \in DOMAIN ConnectionsInDiagram :
                   /\ dg.relationships[n].sourceId =
                        FirstObjectWith(SourceModel(ConnectionsInDiagram[n]))
                   /\ dg.relationships[n].targetId =
                        FirstObjectWith(TargetModel(ConnectionsInDiagram[n]))
         ELSE ~dg.conn_req /\ dg.relationships = dg.given

\* two objects with the same modelId, an unflagged connection between that
\* model id and itself, and a connection with an end outside the diagram
C10_Witness ==
    /\ dg.pc # "infer"
    /\ dg.given = <<>>
    /\ Len(dg.objects) = 2
    /\ dg.objects[1].modelId = 1 /\ dg.objects[2].modelId = 1
    /\ Len(dg.all_conns) = 2
    /\ SourceModel(dg.all_conns[1]) = 2
    /\ SourceModel(dg.all_conns[2]) = 1 /\ TargetModel(dg.all_conns[2]) = 1
    /\ ~dg.all_conns[2].flagged
    /\ dg.relationships = <<Relationship(1, 1, <<"uses">>, 7)>>

(***************************************************************************)
(* C11: if neither the primary response nor any sub-resource response of a *)
(* call carries an objects value at a probed location (a root key or the   *)
(* diagramContent wrapper), the resolver returns an empty objects map and  *)
(* prints the "no objects" warning; and a response body (or its wrapper)   *)
(* that lacks the expected keys is never itself taken as the objects map.  *)
(***************************************************************************)
C11_NoObjectsEmptyAndWarned ==
    (rs.pc = "done" /\ rs.status = 200)
      => /\ ~rlog.carried
              => /\ rs.ret.objects = EmptyObjectsVal
                 /\ rs.ret.warned
         /\ rs.ret.objects.loc \notin {"body", "diagramContent"}

(***************************************************************************)
(* C12: whenever get_model_object fetches and the response has no          *)
(* identifiable object body (no modelObject wrapper, no id key), it does   *)
(* not abort: it returns, and stores for that id, the sentinel with the    *)
(* requested id, name "Unknown" and type "unknown", the name and type that *)
(* a None id yields.                                                       *)
(***************************************************************************)
C12_SentinelNamedUnknown ==
    (mo.fetched /\ mo.shape \in {"error", "notjson"})
      => /\ ~mo.aborted
         /\ mo.ret = ModelObject(mo.id, <<"Unknown">>, "unknown", None)
         /\ mo.id \in DOMAIN model_objects
         /\ model_objects[mo.id] = mo.ret
         /\ mo.ret.name = UnknownModelObject.name
         /\ mo.ret.type = UnknownModelObject.type

\* the lines of the last output printed for the node with this key: its
\* leaf box or its subgraph header
NodeLines(key) ==
    {n \in DOMAIN rd.out :
       rd.out[n].kind \in {"node", "subgraph"} /\ rd.out[n].ref = key}

(***************************************************************************)
(* C13: for any sequence of add_node calls (any parent references: a node  *)
(* that names itself as parent, two nodes that name each other, parents    *)
(* that are not nodes), generate() renders every node of the graph exactly *)
(* once, as a leaf box or as a subgraph header: none is omitted, none      *)
(* appears twice.                                                          *)
(***************************************************************************)
C13_EveryNodeRenderedOnce ==
    (rd.mode = "diagram" /\ rd.gens >= 1)
      => \A i \in DOMAIN mdia.nodes :
           Cardinality(NodeLines(mdia.nodes[i].key)) = 1

====
